---------------------------- MODULE Spec2Model ----------------------------
(***************************************************************************)
(* Model of placement.py: the provider-data fetcher                        *)
(* (RecuperateurDonneesAPI), the valuation analyser                        *)
(* (AnalyseurSousEvaluation), the text coercion convertir_valeur and the   *)
(* menu loop of main with the handlers of its selections.                  *)
(*                                                                         *)
(* Numbers.  Python floats are modelled as exact rationals [n, d] in       *)
(* lowest terms with d > 0; float('inf') is [n |-> 1, d |-> 0].  The       *)
(* inputs are small decimals, so a quotient differs from a threshold by    *)
(* far more than one rounding step unless it equals it exactly; the one    *)
(* place where IEEE-754 rounding decides a comparison is a tie against a   *)
(* product such as pe_reference * 0.7, and the direction in which each of  *)
(* those products is rounded is kept in ArrondiProduit.                    *)
(*                                                                         *)
(* Text.  A Python str is a sequence of one-character strings.             *)
(***************************************************************************)
EXTENDS Integers, Sequences, FiniteSets, TLC

VARIABLES
    \* AnalyseurSousEvaluation.analyser_entreprise
    donnees,        \* the DonneesEntreprise handed to the analyser
    resultat,       \* the dictionary analyser_entreprise returns
    analyse_faite,  \* TRUE once analyser_entreprise has returned
    \* RecuperateurDonneesAPI.convertir_valeur
    entree_conv,    \* the argument of convertir_valeur
    conv,           \* its outcome: [leve |-> raised?, val |-> returned float]
    conv_faite,     \* TRUE once convertir_valeur has been applied
    \* the verdict ladder of analyser_entreprise, taken alone
    score_essai,    \* the score_final the ladder is applied to
    verdict,        \* the conclusion it assigns
    verdict_fait,   \* TRUE once the ladder has been applied
    \* RecuperateurDonneesAPI.recuperer_donnees_entreprise
    pc_r,           \* the position of the run in recuperer_donnees_entreprise
    journal,        \* the remote calls and the sleeps of the run, in order
    symbole,        \* the local symbole
    apercu,         \* the local apercu
    revenus_data,   \* the local revenus_data
    bilan_data,     \* the local bilan_data
    retour,         \* what recuperer_donnees_entreprise returns
    \* one scoring ladder of AnalyseurSousEvaluation, taken alone
    echelle,        \* the ladder applied: "pe", "pb", "peg", "croissance", "endettement"
    ech_cle,        \* the sector whose benchmark it is applied with
    ech_ratio,      \* the ratio it is applied to
    ech_score,      \* the score it returns
    \* main
    pc_m,           \* the position of main in its loop
    choix,          \* the local choix
    api_key,        \* the local api_key
    cle_tapee,      \* the text typed at the prompt of configurer_api_key
    nom_entreprise, \* the name typed for the automatic analysis
    saisie,         \* the texts typed in saisir_donnees_entreprise
    sortie          \* the last message of the selection being handled

vars_analyse == <<donnees, resultat, analyse_faite>>

vars_conv == <<entree_conv, conv, conv_faite>>

vars_verdict == <<score_essai, verdict, verdict_fait>>

vars_recup == <<pc_r, journal, symbole, apercu, revenus_data, bilan_data, retour>>

vars_echelle == <<echelle, ech_cle, ech_ratio, ech_score>>

vars_main == <<pc_m, choix, api_key, cle_tapee, nom_entreprise, saisie, sortie>>

vars == <<vars_analyse, vars_conv, vars_verdict, vars_recup, vars_echelle, vars_main>>

-----------------------------------------------------------------------------
(* Exact rational arithmetic standing for Python float arithmetic.         *)

Abs(x) == IF x < 0 THEN -x ELSE x

RECURSIVE Gcd(_, _)
Gcd(a, b) == IF b = 0 THEN a ELSE Gcd(b, a % b)

\* the float n/d (d > 0), in lowest terms; numerator and denominator are
\* computed once, then reduced
Rat(n, d) ==
    LET Reduit(nv, dv) ==
            LET g == Gcd(Abs(nv), dv)
            IN  [n |-> nv \div g, d |-> dv \div g]
    IN  CHOOSE r \in {Reduit(nv, dv) : nv \in {n}, dv \in {d}} : TRUE

\* float('inf')
Inf == [n |-> 1, d |-> 0]

Zero == [n |-> 0, d |-> 1]

\* an int or a whole float
Ent(k) == [n |-> k, d |-> 1]

\* a float written with one decimal digit: Dix(35) is 3.5
Dix(k) == Rat(k, 10)

\* a < b ; with inf on either side this is Python's ordering of floats
Lt(a, b) == a.n * b.d < b.n * a.d

Le(a, b) == a.n * b.d <= b.n * a.d

Gt(a, b) == Lt(b, a)

Ge(a, b) == Le(b, a)

Sub(a, b) == Rat(a.n * b.d - b.n * a.d, a.d * b.d)

Add(a, b) == Rat(a.n * b.d + b.n * a.d, a.d * b.d)

Mul(a, b) == Rat(a.n * b.n, a.d * b.d)

\* a / b for finite a and b # 0 (every division of the program is guarded)
Div(a, b) ==
    IF b.n > 0 THEN Rat(a.n * b.d, a.d * b.n)
               ELSE Rat(-(a.n * b.d), a.d * (-b.n))


-----------------------------------------------------------------------------
(* Text: str.lower() on the letters the sector tags use.                   *)

Majuscules ==
    <<"A","B","C","D","E","F","G","H","I","J","K","L","M",
      "N","O","P","Q","R","S","T","U","V","W","X","Y","Z">>

Minuscules ==
    <<"a","b","c","d","e","f","g","h","i","j","k","l","m",
      "n","o","p","q","r","s","t","u","v","w","x","y","z">>

LowerChar(c) ==
    IF \E i \in DOMAIN Majuscules : Majuscules[i] = c
    THEN Minuscules[CHOOSE i \in DOMAIN Majuscules : Majuscules[i] = c]
    ELSE c

Lower(s) == [i \in DOMAIN s |-> LowerChar(s[i])]

UpperChar(c) ==
    IF \E i \in DOMAIN Minuscules : Minuscules[i] = c
    THEN Majuscules[CHOOSE i \in DOMAIN Minuscules : Minuscules[i] = c]
    ELSE c

Upper(s) == [i \in DOMAIN s |-> UpperChar(s[i])]

-----------------------------------------------------------------------------
(* Values of the provider's JSON documents: a string, null, or no entry    *)
(* under the key.                                                          *)

JStr(s) == [k |-> "str", s |-> s]

JNull == [k |-> "null", s |-> <<>>]

JAbsent == [k |-> "absent", s |-> <<>>]

\* dict.get(key, default) on an entry of a JSON object
Get(entry, default) == IF entry.k = "absent" THEN JStr(default) ELSE entry

-----------------------------------------------------------------------------
(* Python's float(str) on decimal numerals: surrounding blanks are         *)
(* stripped, then an optional sign, then digits with at most one point     *)
(* and at least one digit.  Exponents, underscores and the words inf and   *)
(* nan need characters that the input strings below do not combine.        *)

Chiffres == <<"0","1","2","3","4","5","6","7","8","9">>

EstChiffre(c) == \E i \in DOMAIN Chiffres : Chiffres[i] = c

ValChiffre(c) == (CHOOSE i \in DOMAIN Chiffres : Chiffres[i] = c) - 1

RECURSIVE StripGauche(_)
StripGauche(s) ==
    IF s # <<>> /\ Head(s) = " " THEN StripGauche(Tail(s)) ELSE s

RECURSIVE StripDroite(_)
StripDroite(s) ==
    IF s # <<>> /\ s[Len(s)] = " " THEN StripDroite(SubSeq(s, 1, Len(s) - 1)) ELSE s

Strip(s) == StripDroite(StripGauche(s))

\* the digits of s read as one integer, the point skipped
RECURSIVE Mantisse(_, _)
Mantisse(s, acc) ==
    IF s = <<>> THEN acc
    ELSE IF Head(s) = "." THEN Mantisse(Tail(s), acc)
    ELSE Mantisse(Tail(s), acc * 10 + ValChiffre(Head(s)))

RECURSIVE Puissance10(_)
Puissance10(k) == IF k = 0 THEN 1 ELSE 10 * Puissance10(k - 1)

\* float(s): [ok |-> FALSE] stands for ValueError
FloatDe(s) ==
    LET t      == Strip(s)
        signe  == IF t # <<>> /\ Head(t) = "-" THEN -1 ELSE 1
        corps  == IF t # <<>> /\ Head(t) \in {"-", "+"} THEN Tail(t) ELSE t
        points == {i \in DOMAIN corps : corps[i] = "."}
        nbchif == Cardinality({i \in DOMAIN corps : EstChiffre(corps[i])})
        valide == /\ \A i \in DOMAIN corps : EstChiffre(corps[i]) \/ corps[i] = "."
                  /\ Cardinality(points) <= 1
                  /\ nbchif >= 1
        nbdec  == IF points = {} THEN 0
                  ELSE Len(corps) - (CHOOSE i \in points : TRUE)
    IN  IF valide
        THEN [ok |-> TRUE, val |-> Rat(signe * Mantisse(corps, 0), Puissance10(nbdec))]
        ELSE [ok |-> FALSE, val |-> Zero]

T_None == <<"N","o","n","e">>

T_Tiret == <<"-">>

\* convertir_valeur without the try/except around float()
convertir_valeur_sans_except(valeur_str) ==
    IF valeur_str.k = "null" \/ valeur_str.s = <<>>
       \/ valeur_str.s = T_None \/ valeur_str.s = T_Tiret
    THEN [leve |-> FALSE, val |-> Zero]
    ELSE LET r == FloatDe(valeur_str.s)
         IN  [leve |-> ~r.ok, val |-> r.val]

\* RecuperateurDonneesAPI.convertir_valeur; leve is TRUE when the call raises
convertir_valeur(valeur_str) ==
    IF valeur_str.k = "null" \/ valeur_str.s = <<>>
       \/ valeur_str.s = T_None \/ valeur_str.s = T_Tiret
    THEN [leve |-> FALSE, val |-> Zero]
    ELSE LET r == FloatDe(valeur_str.s)
         IN  IF r.ok THEN [leve |-> FALSE, val |-> r.val]
             ELSE [leve |-> FALSE, val |-> Zero]

-----------------------------------------------------------------------------
(* AnalyseurSousEvaluation                                                 *)

K_technologie  == <<"t","e","c","h","n","o","l","o","g","i","e">>
K_finance      == <<"f","i","n","a","n","c","e">>
K_sante        == <<"s","a","n","t","e">>
K_industrie    == <<"i","n","d","u","s","t","r","i","e">>
K_consommation == <<"c","o","n","s","o","m","m","a","t","i","o","n">>
K_energie      == <<"e","n","e","r","g","i","e">>
K_defaut       == <<"d","e","f","a","u","t">>

Ref(pe, pb10, cr) == [pe_moyen |-> Ent(pe), pb_moyen |-> Dix(pb10), croissance_moyenne |-> Ent(cr)]

\* self.references_secteur
references_secteur ==
    (K_technologie  :> Ref(25, 45, 15)) @@
    (K_finance      :> Ref(12, 12, 8))  @@
    (K_sante        :> Ref(18, 30, 12)) @@
    (K_industrie    :> Ref(16, 25, 6))  @@
    (K_consommation :> Ref(20, 35, 10)) @@
    (K_energie      :> Ref(14, 18, 5))  @@
    (K_defaut       :> Ref(18, 28, 10))

\* dict.get(key, default)
DictGet(dict, key, default) == IF key \in DOMAIN dict THEN dict[key] ELSE default

\* obtenir_references looking the tag up as given, without lower()
obtenir_references_sans_lower(secteur) ==
    DictGet(references_secteur, secteur, references_secteur[K_defaut])

obtenir_references(secteur) ==
    LET secteur_key == Lower(secteur)
    IN  DictGet(references_secteur, secteur_key, references_secteur[K_defaut])

\* calculer_ratio_pe guarding only against a zero benefice_par_action
calculer_ratio_pe_sans_garde(d) ==
    IF d.benefice_par_action = Zero THEN Inf
    ELSE Div(d.prix_action, d.benefice_par_action)

calculer_ratio_pe(d) ==
    IF Le(d.benefice_par_action, Zero) THEN Inf
    ELSE Div(d.prix_action, d.benefice_par_action)

calculer_ratio_pb(d) ==
    IF Le(d.valeur_comptable_par_action, Zero) THEN Inf
    ELSE Div(d.prix_action, d.valeur_comptable_par_action)

calculer_ratio_peg(d) ==
    LET pe_ratio == calculer_ratio_pe(d)
    IN  IF pe_ratio = Inf \/ Le(d.croissance_benefices_prevue, Zero) THEN Inf
        ELSE Div(pe_ratio, d.croissance_benefices_prevue)

\* calculer_croissance_revenus returning a fraction, not a percentage
calculer_croissance_revenus_fraction(d) ==
    IF Le(d.revenus_annee_precedente, Zero) THEN Zero
    ELSE Div(Sub(d.revenus_actuels, d.revenus_annee_precedente),
             d.revenus_annee_precedente)

calculer_croissance_revenus(d) ==
    IF Le(d.revenus_annee_precedente, Zero) THEN Zero
    ELSE Mul(Div(Sub(d.revenus_actuels, d.revenus_annee_precedente),
                 d.revenus_annee_precedente), Ent(100))

calculer_ratio_endettement(d) ==
    IF Le(d.capitaux_propres, Zero) THEN Inf
    ELSE Div(d.dette_totale, d.capitaux_propres)

\* The direction in which the double product reference * coefficient is
\* rounded, relative to the double nearest the exact product: -1 below,
\* 0 equal, 1 above.  Keys are <<reference in tenths, coefficient in hundredths>>.
ArrondiProduit(ref, coef) ==
    LET k == <<(ref.n * 10) \div ref.d, (coef.n * 100) \div coef.d>>
    IN  IF k \in {<<250, 115>>, <<120, 70>>, <<120, 115>>, <<180, 85>>,
                  <<140, 70>>, <<140, 115>>, <<45, 60>>, <<45, 120>>,
                  <<30, 60>>, <<30, 120>>, <<28, 80>>} THEN -1
        ELSE IF k \in {<<30, 80>>, <<35, 80>>, <<18, 80>>} THEN 1
        ELSE 0

\* x < reference * coefficient, as the doubles compare
LtProduit(x, ref, coef) ==
    LET t == Mul(ref, coef)
    IN  Lt(x, t) \/ (x = t /\ ArrondiProduit(ref, coef) = 1)

\* x > reference * coefficient, as the doubles compare
GtProduit(x, ref, coef) ==
    LET t == Mul(ref, coef)
    IN  Gt(x, t) \/ (x = t /\ ArrondiProduit(ref, coef) = -1)

Pct(k) == Rat(k, 100)

\* evaluer_ratio_pe without its branch for an infinite P/E
evaluer_ratio_pe_sans_inf(pe_ratio, references) ==
    LET pe_reference == references.pe_moyen
    IN  IF LtProduit(pe_ratio, pe_reference, Pct(70)) THEN 90
        ELSE IF LtProduit(pe_ratio, pe_reference, Pct(85)) THEN 70
        ELSE IF LtProduit(pe_ratio, pe_reference, Pct(115)) THEN 50
        ELSE IF LtProduit(pe_ratio, pe_reference, Pct(150)) THEN 30
        ELSE 10

evaluer_ratio_pe(pe_ratio, references) ==
    LET pe_reference == references.pe_moyen
    IN  IF pe_ratio = Inf THEN 0
        ELSE IF LtProduit(pe_ratio, pe_reference, Pct(70)) THEN 90
        ELSE IF LtProduit(pe_ratio, pe_reference, Pct(85)) THEN 70
        ELSE IF LtProduit(pe_ratio, pe_reference, Pct(115)) THEN 50
        ELSE IF LtProduit(pe_ratio, pe_reference, Pct(150)) THEN 30
        ELSE 10

evaluer_ratio_pb(pb_ratio, references) ==
    LET pb_reference == references.pb_moyen
    IN  IF LtProduit(pb_ratio, pb_reference, Pct(60)) THEN 85
        ELSE IF LtProduit(pb_ratio, pb_reference, Pct(80)) THEN 65
        ELSE IF LtProduit(pb_ratio, pb_reference, Pct(120)) THEN 50
        ELSE 25

\* evaluer_ratio_peg without its branch for an infinite PEG
evaluer_ratio_peg_sans_inf(peg_ratio) ==
    IF Lt(peg_ratio, Dix(5)) THEN 95
    ELSE IF Lt(peg_ratio, Dix(10)) THEN 80
    ELSE IF Lt(peg_ratio, Dix(15)) THEN 50
    ELSE IF Lt(peg_ratio, Dix(20)) THEN 30
    ELSE 10

evaluer_ratio_peg(peg_ratio) ==
    IF peg_ratio = Inf THEN 20
    ELSE IF Lt(peg_ratio, Dix(5)) THEN 95
    ELSE IF Lt(peg_ratio, Dix(10)) THEN 80
    ELSE IF Lt(peg_ratio, Dix(15)) THEN 50
    ELSE IF Lt(peg_ratio, Dix(20)) THEN 30
    ELSE 10

evaluer_croissance(croissance_revenus, references) ==
    LET croissance_ref == references.croissance_moyenne
    IN  IF GtProduit(croissance_revenus, croissance_ref, Pct(150)) THEN 80
        ELSE IF Gt(croissance_revenus, croissance_ref) THEN 65
        ELSE IF Gt(croissance_revenus, Zero) THEN 45
        ELSE 20

\* evaluer_endettement without its branch for an infinite ratio
evaluer_endettement_sans_inf(ratio_endettement) ==
    IF Lt(ratio_endettement, Dix(3)) THEN 80
    ELSE IF Lt(ratio_endettement, Dix(6)) THEN 60
    ELSE IF Lt(ratio_endettement, Dix(10)) THEN 40
    ELSE 20

evaluer_endettement(ratio_endettement) ==
    IF ratio_endettement = Inf THEN 0
    ELSE IF Lt(ratio_endettement, Dix(3)) THEN 80
    ELSE IF Lt(ratio_endettement, Dix(6)) THEN 60
    ELSE IF Lt(ratio_endettement, Dix(10)) THEN 40
    ELSE 20

\* The explanation each ladder returns with its score, named by the words
\* it starts with: it tells which branch of the ladder was taken.
explication_pe(pe_ratio, references) ==
    LET pe_reference == references.pe_moyen
    IN  IF pe_ratio = Inf THEN "P/E infini"
        ELSE IF LtProduit(pe_ratio, pe_reference, Pct(70)) THEN "P/E tres faible"
        ELSE IF LtProduit(pe_ratio, pe_reference, Pct(85)) THEN "P/E faible"
        ELSE IF LtProduit(pe_ratio, pe_reference, Pct(115)) THEN "P/E normal"
        ELSE IF LtProduit(pe_ratio, pe_reference, Pct(150)) THEN "P/E eleve"
        ELSE "P/E tres eleve"

explication_pb(pb_ratio, references) ==
    LET pb_reference == references.pb_moyen
    IN  IF LtProduit(pb_ratio, pb_reference, Pct(60)) THEN "P/B tres faible"
        ELSE IF LtProduit(pb_ratio, pb_reference, Pct(80)) THEN "P/B faible"
        ELSE IF LtProduit(pb_ratio, pb_reference, Pct(120)) THEN "P/B normal"
        ELSE "P/B eleve"

explication_peg(peg_ratio) ==
    IF peg_ratio = Inf THEN "PEG non calculable"
    ELSE IF Lt(peg_ratio, Dix(5)) THEN "PEG excellent"
    ELSE IF Lt(peg_ratio, Dix(10)) THEN "PEG bon"
    ELSE IF Lt(peg_ratio, Dix(15)) THEN "PEG acceptable"
    ELSE IF Lt(peg_ratio, Dix(20)) THEN "PEG eleve"
    ELSE "PEG tres eleve"

explication_croissance(croissance_revenus, references) ==
    LET croissance_ref == references.croissance_moyenne
    IN  IF GtProduit(croissance_revenus, croissance_ref, Pct(150))
        THEN "Excellente croissance"
        ELSE IF Gt(croissance_revenus, croissance_ref) THEN "Bonne croissance"
        ELSE IF Gt(croissance_revenus, Zero) THEN "Croissance moderee"
        ELSE "Croissance negative"

explication_endettement(ratio_endettement) ==
    IF ratio_endettement = Inf THEN "Endettement critique"
    ELSE IF Lt(ratio_endettement, Dix(3)) THEN "Endettement faible"
    ELSE IF Lt(ratio_endettement, Dix(6)) THEN "Endettement modere"
    ELSE IF Lt(ratio_endettement, Dix(10)) THEN "Endettement eleve"
    ELSE "Endettement tres eleve"

\* the weights of analyser_entreprise
poids ==
    [pe |-> Pct(25), pb |-> Pct(20), peg |-> Pct(25),
     croissance |-> Pct(20), endettement |-> Pct(10)]

\* score_final as the plain sum of the five scores, the weights forgotten
ScoreFinal_sans_poids(s_pe, s_pb, s_peg, s_cr, s_end) ==
    Ent(s_pe + s_pb + s_peg + s_cr + s_end)

\* score_final: the five products are exact in double arithmetic for every
\* combination of ladder scores, so the sum is the exact weighted sum
ScoreFinal(s_pe, s_pb, s_peg, s_cr, s_end) ==
    LET Somme(t_pe, t_pb, t_peg, t_cr, t_end) ==
            Add(Add(Add(Add(t_pe, t_pb), t_peg), t_cr), t_end)
    IN  CHOOSE score_final \in
            {Somme(t_pe, t_pb, t_peg, t_cr, t_end) :
                 t_pe  \in {Mul(Ent(s_pe), poids.pe)},
                 t_pb  \in {Mul(Ent(s_pb), poids.pb)},
                 t_peg \in {Mul(Ent(s_peg), poids.peg)},
                 t_cr  \in {Mul(Ent(s_cr), poids.croissance)},
                 t_end \in {Mul(Ent(s_end), poids.endettement)}} : TRUE

\* the verdict ladder with strict comparisons
Conclusion_strict(score_final) ==
    IF Gt(score_final, Ent(75)) THEN "FORTEMENT SOUS-EVALUEE"
    ELSE IF Gt(score_final, Ent(60)) THEN "SOUS-EVALUEE"
    ELSE IF Gt(score_final, Ent(40)) THEN "VALORISATION EQUITABLE"
    ELSE IF Gt(score_final, Ent(25)) THEN "POSSIBLEMENT SUREVALUEE"
    ELSE "SUREVALUEE"

\* the verdict ladder of analyser_entreprise
Conclusion(score_final) ==
    IF Ge(score_final, Ent(75)) THEN "FORTEMENT SOUS-EVALUEE"
    ELSE IF Ge(score_final, Ent(60)) THEN "SOUS-EVALUEE"
    ELSE IF Ge(score_final, Ent(40)) THEN "VALORISATION EQUITABLE"
    ELSE IF Ge(score_final, Ent(25)) THEN "POSSIBLEMENT SUREVALUEE"
    ELSE "SUREVALUEE"

\* analyser_entreprise raises at its first line: donnees.nom.upper() of a
\* nom that is no str
analyser_leve(d) == d.nom.k # "str"

\* lines 437-487: the five ratios and the benchmark are computed once, then
\* scored and combined
analyser_entreprise(d) ==
    LET Evaluer(pe_ratio, pb_ratio, peg_ratio, croissance_revenus,
                ratio_endettement, references) ==
            LET score_pe          == evaluer_ratio_pe(pe_ratio, references)
                score_pb          == evaluer_ratio_pb(pb_ratio, references)
                score_peg         == evaluer_ratio_peg(peg_ratio)
                score_croissance  == evaluer_croissance(croissance_revenus, references)
                score_endettement == evaluer_endettement(ratio_endettement)
                score_final       == ScoreFinal(score_pe, score_pb, score_peg,
                                                score_croissance, score_endettement)
            IN  [secteur    |-> d.secteur,
                 references |-> references,
                 ratios     |-> [pe |-> pe_ratio, pb |-> pb_ratio, peg |-> peg_ratio,
                                 croissance_revenus |-> croissance_revenus,
                                 ratio_endettement |-> ratio_endettement],
                 scores     |-> [pe |-> score_pe, pb |-> score_pb, peg |-> score_peg,
                                 croissance |-> score_croissance,
                                 endettement |-> score_endettement,
                                 final |-> score_final],
                 explications |->
                     [pe |-> explication_pe(pe_ratio, references),
                      pb |-> explication_pb(pb_ratio, references),
                      peg |-> explication_peg(peg_ratio),
                      croissance |-> explication_croissance(croissance_revenus,
                                                            references),
                      endettement |-> explication_endettement(ratio_endettement)],
                 conclusion |-> Conclusion(score_final)]
    IN  CHOOSE resultat_analyse \in
            {Evaluer(pe_ratio, pb_ratio, peg_ratio, croissance_revenus,
                     ratio_endettement, references) :
                 pe_ratio           \in {calculer_ratio_pe(d)},
                 pb_ratio           \in {calculer_ratio_pb(d)},
                 peg_ratio          \in {calculer_ratio_peg(d)},
                 croissance_revenus \in {calculer_croissance_revenus(d)},
                 ratio_endettement  \in {calculer_ratio_endettement(d)},
                 references         \in {obtenir_references(d.secteur)}} : TRUE


-----------------------------------------------------------------------------
(* The records handed to the analyser.  symbole is left out: it is only    *)
(* printed.  nom is kept: the analyser calls upper() on it, and the        *)
(* provider's Name entry may be null.                                      *)

MaxPalier == 1

PrixSet == {Ent(-5), Ent(25), Ent(60)} \cup {Ent(10 * k) : k \in 0..MaxPalier}

BpaSet == {Ent(-1), Dix(35)} \cup {Ent(k) : k \in 0..MaxPalier}

ValeurComptableSet == {Ent(-2), Ent(0), Ent(5), Ent(18)}

RevenusActuelsSet == {Ent(900), Ent(1050), Ent(1200)}

RevenusPrecedentsSet == {Ent(-100), Ent(0), Ent(1000)}

DetteSet == {Ent(0), Ent(300), Ent(600), Ent(900)}

CapitauxSet == {Ent(-100), Ent(0), Ent(800)}

CroissancePrevueSet == {Ent(-5), Ent(0), Ent(15)}

\* sector tags: the keys as listed by saisir_donnees_entreprise and as returned
\* by detecter_secteur, other spellings of them, and tags that are no key
SecteurTags ==
    {K_industrie, K_defaut,
     <<"I","N","D","U","S","T","R","I","E">>,
     <<"F","i","n","a","n","c","e">>,
     <<"l","u","x","e">>,
     <<>>}

DonneesSet ==
    [nom : {JStr(<<"V">>)},
     prix_action : PrixSet,
     benefice_par_action : BpaSet,
     valeur_comptable_par_action : ValeurComptableSet,
     revenus_actuels : RevenusActuelsSet,
     revenus_annee_precedente : RevenusPrecedentsSet,
     dette_totale : DetteSet,
     capitaux_propres : CapitauxSet,
     croissance_benefices_prevue : CroissancePrevueSet,
     secteur : SecteurTags,
     capitalisation_boursiere : {Ent(500)}]

\* the record exemple_analyse builds
entreprise_sous_evaluee ==
    [nom |-> JStr(<<"V","a","l","u","e","C","o","r","p"," ","S","A">>),
     prix_action |-> Ent(25),
     benefice_par_action |-> Dix(35),
     valeur_comptable_par_action |-> Ent(18),
     revenus_actuels |-> Ent(1200),
     revenus_annee_precedente |-> Ent(1000),
     dette_totale |-> Ent(300),
     capitaux_propres |-> Ent(800),
     croissance_benefices_prevue |-> Ent(15),
     secteur |-> K_industrie,
     capitalisation_boursiere |-> Ent(500)]

\* no record analysed yet
AucuneDonnee ==
    [nom |-> JStr(<<>>), prix_action |-> Zero, benefice_par_action |-> Zero,
     valeur_comptable_par_action |-> Zero, revenus_actuels |-> Zero,
     revenus_annee_precedente |-> Zero, dette_totale |-> Zero,
     capitaux_propres |-> Zero, croissance_benefices_prevue |-> Zero,
     secteur |-> <<>>, capitalisation_boursiere |-> Zero]

AucunResultat ==
    [secteur |-> <<>>, references |-> references_secteur[K_defaut],
     ratios |-> [pe |-> Zero, pb |-> Zero, peg |-> Zero,
                 croissance_revenus |-> Zero, ratio_endettement |-> Zero],
     scores |-> [pe |-> 0, pb |-> 0, peg |-> 0, croissance |-> 0,
                 endettement |-> 0, final |-> Zero],
     explications |-> [pe |-> "", pb |-> "", peg |-> "", croissance |-> "",
                       endettement |-> ""],
     conclusion |-> ""]

AucuneConversion == [leve |-> FALSE, val |-> Zero]

-----------------------------------------------------------------------------
(* RecuperateurDonneesAPI                                                  *)

\* self.secteurs_mapping
secteurs_mapping ==
    (<<"T","E","C","H","N","O","L","O","G","Y">>
        :> K_technologie) @@
    (<<"F","I","N","A","N","C","I","A","L"," ","S","E","R","V","I","C","E","S">>
        :> K_finance) @@
    (<<"H","E","A","L","T","H","C","A","R","E">>
        :> K_sante) @@
    (<<"I","N","D","U","S","T","R","I","A","L","S">>
        :> K_industrie) @@
    (<<"C","O","N","S","U","M","E","R"," ","D","I","S","C","R","E","T","I","O","N","A","R","Y">>
        :> K_consommation) @@
    (<<"C","O","N","S","U","M","E","R"," ","S","T","A","P","L","E","S">>
        :> K_consommation) @@
    (<<"E","N","E","R","G","Y">>
        :> K_energie) @@
    (<<"U","T","I","L","I","T","I","E","S">>
        :> K_energie) @@
    (<<"M","A","T","E","R","I","A","L","S">>
        :> K_industrie) @@
    (<<"R","E","A","L"," ","E","S","T","A","T","E">>
        :> K_finance) @@
    (<<"C","O","M","M","U","N","I","C","A","T","I","O","N"," ","S","E","R","V","I","C","E","S">>
        :> K_technologie)

detecter_secteur(secteur_api) ==
    LET secteur_upper == Upper(secteur_api)
    IN  DictGet(secteurs_mapping, secteur_upper, K_defaut)

\* Optional[str]: None, or the ticker found
SymboleNone == [nul |-> TRUE, s |-> ""]

\* a response of the provider: k is "exception" when requests.get or
\* response.json() raises, "json" when a JSON object came back

\* rechercher_symbole on a response whose bestMatches, when present (cle), is
\* the list of the "1. symbol" entries of the matches
rechercher_symbole(rep) ==
    IF rep.k = "exception" THEN SymboleNone
    ELSE IF rep.cle /\ Len(rep.bestMatches) > 0
         THEN [nul |-> FALSE, s |-> rep.bestMatches[1]]
         ELSE SymboleNone

\* the entries of the OVERVIEW object the program reads
ApercuVide ==
    [Name |-> JAbsent, MA50 |-> JAbsent, PreviousClose |-> JAbsent, EPS |-> JAbsent,
     BookValue |-> JAbsent, MarketCapitalization |-> JAbsent,
     PERatio |-> JAbsent, PEGRatio |-> JAbsent, Sector |-> JAbsent]

ApercuNone == [nul |-> TRUE, data |-> ApercuVide]

\* obtenir_apercu_entreprise on a response; cle says whether "Symbol" is in it
obtenir_apercu_entreprise(rep) ==
    IF rep.k = "exception" THEN ApercuNone
    ELSE IF rep.cle THEN [nul |-> FALSE, data |-> rep.data]
         ELSE ApercuNone

\* an INCOME_STATEMENT or BALANCE_SHEET object: liste says whether its
\* annualReports is a list, rapports is that list
RapportsNone == [nul |-> TRUE, liste |-> TRUE, rapports |-> <<>>]

\* obtenir_revenus_annuels on a response; cle says whether "annualReports" is in it
obtenir_revenus_annuels(rep) ==
    IF rep.k = "exception" THEN RapportsNone
    ELSE IF rep.cle THEN [nul |-> FALSE, liste |-> rep.liste, rapports |-> rep.rapports]
         ELSE RapportsNone

\* obtenir_bilan on a response; cle says whether "annualReports" is in it
obtenir_bilan(rep) ==
    IF rep.k = "exception" THEN RapportsNone
    ELSE IF rep.cle THEN [nul |-> FALSE, liste |-> rep.liste, rapports |-> rep.rapports]
         ELSE RapportsNone

RetourNone == [nul |-> TRUE, d |-> AucuneDonnee]

Million == Ent(1000000)

T_0 == <<"0">>

\* the price falling back to "0" like every other entry
T_100_zero == <<"0">>

T_100 == <<"1","0","0">>

\* the try block of recuperer_donnees_entreprise raises: .upper() of a Sector
\* that is no string, or len() of an annualReports that is no list
ExtractionLeve(ap, rev, bil) ==
    \/ Get(ap.data.Sector, <<>>).k # "str"
    \/ (~rev.nul /\ ~rev.liste)
    \/ (~bil.nul /\ ~bil.liste)

\* the fields the try block extracts (lines 208-269), when nothing raises
ExtraireChamps(ap, rev, bil) ==
    LET a     == ap.data
        nom   == Get(a.Name, nom_entreprise)
        prix0 == convertir_valeur(Get(a.MA50, T_0)).val
        prix_action ==
            IF prix0 = Zero THEN convertir_valeur(Get(a.PreviousClose, T_100)).val
            ELSE prix0
        benefice_par_action == convertir_valeur(Get(a.EPS, T_0)).val
        valeur_comptable_par_action == convertir_valeur(Get(a.BookValue, T_0)).val
        capitalisation_boursiere ==
            Div(convertir_valeur(Get(a.MarketCapitalization, T_0)).val, Million)
        pe_ratio  == convertir_valeur(Get(a.PERatio, T_0)).val
        secteur   == detecter_secteur(Get(a.Sector, <<>>).s)
        peg_ratio == convertir_valeur(Get(a.PEGRatio, T_0)).val
        croissance_benefices_prevue ==
            IF Gt(peg_ratio, Zero) /\ Gt(pe_ratio, Zero)
            THEN (IF peg_ratio # Zero THEN Div(pe_ratio, peg_ratio) ELSE Ent(10))
            ELSE Ent(10)
        avec_revenus == ~rev.nul /\ Len(rev.rapports) >= 2
        revenus_actuels ==
            IF avec_revenus
            THEN Div(convertir_valeur(Get(rev.rapports[1].totalRevenue, T_0)).val, Million)
            ELSE Zero
        revenus_annee_precedente ==
            IF avec_revenus
            THEN Div(convertir_valeur(Get(rev.rapports[2].totalRevenue, T_0)).val, Million)
            ELSE Zero
        avec_bilan == ~bil.nul /\ Len(bil.rapports) >= 1
        dette0 ==
            IF avec_bilan
            THEN Div(convertir_valeur(Get(bil.rapports[1].totalDebt, T_0)).val, Million)
            ELSE Zero
        dette_totale ==
            IF avec_bilan /\ dette0 = Zero
            THEN Div(convertir_valeur(Get(bil.rapports[1].longTermDebt, T_0)).val, Million)
            ELSE dette0
        capitaux_propres ==
            IF avec_bilan
            THEN Div(convertir_valeur(
                         Get(bil.rapports[1].totalShareholderEquity, T_0)).val, Million)
            ELSE Zero
    IN  [nom |-> nom,
         prix_action |-> prix_action,
         benefice_par_action |-> benefice_par_action,
         valeur_comptable_par_action |-> valeur_comptable_par_action,
         revenus_actuels |-> revenus_actuels,
         revenus_annee_precedente |-> revenus_annee_precedente,
         dette_totale |-> dette_totale,
         capitaux_propres |-> capitaux_propres,
         croissance_benefices_prevue |-> croissance_benefices_prevue,
         secteur |-> secteur,
         capitalisation_boursiere |-> capitalisation_boursiere]

\* the try block of recuperer_donnees_entreprise with revenus_data = None
\* or bilan_data = None treated as a failure of the whole run
extraire_sans_degradation(ap, rev, bil) ==
    IF ExtractionLeve(ap, rev, bil) \/ rev.nul \/ bil.nul THEN RetourNone
    ELSE [nul |-> FALSE, d |-> ExtraireChamps(ap, rev, bil)]

\* the try block of recuperer_donnees_entreprise (lines 207-273): None when
\* it raises, the record otherwise
extraire(ap, rev, bil) ==
    IF ExtractionLeve(ap, rev, bil) THEN RetourNone
    ELSE [nul |-> FALSE, d |-> ExtraireChamps(ap, rev, bil)]

\* api_key = None
CleNone == [nul |-> TRUE, s |-> <<>>]

\* nothing typed in saisir_donnees_entreprise
AucuneSaisie ==
    [nom |-> <<>>, prix_action |-> <<>>, benefice_par_action |-> <<>>,
     valeur_comptable_par_action |-> <<>>, revenus_actuels |-> <<>>,
     revenus_annee_precedente |-> <<>>, dette_totale |-> <<>>,
     capitaux_propres |-> <<>>, croissance_benefices_prevue |-> <<>>,
     capitalisation_boursiere |-> <<>>, secteur |-> <<>>]

Init ==
    /\ donnees = AucuneDonnee
    /\ resultat = AucunResultat
    /\ analyse_faite = FALSE
    /\ entree_conv = JNull
    /\ conv = AucuneConversion
    /\ conv_faite = FALSE
    /\ score_essai = Zero
    /\ verdict = ""
    /\ verdict_fait = FALSE
    /\ pc_r = "debut"
    /\ journal = <<>>
    /\ symbole = SymboleNone
    /\ apercu = ApercuNone
    /\ revenus_data = RapportsNone
    /\ bilan_data = RapportsNone
    /\ retour = RetourNone
    /\ echelle = ""
    /\ ech_cle = K_defaut
    /\ ech_ratio = Zero
    /\ ech_score = 0
    /\ pc_m = "menu"
    /\ choix = ""
    /\ api_key = CleNone
    /\ cle_tapee = <<>>
    /\ nom_entreprise = <<>>
    /\ saisie = AucuneSaisie
    /\ sortie = ""

\* One behaviour is one call: analyse_faite is the position of the call,
\* FALSE before it and TRUE once it has returned.
\* analyseur.analyser_entreprise(donnees) on any record
AnalyserEntreprise ==
    /\ ~analyse_faite
    /\ \E d \in DonneesSet :
        /\ donnees' = d
        /\ resultat' = analyser_entreprise(d)
    /\ analyse_faite' = TRUE
    /\ UNCHANGED <<vars_conv, vars_verdict, vars_recup, vars_echelle, vars_main>>

\* exemple_analyse: the analysis of the built-in record
ExempleAnalyse ==
    /\ ~analyse_faite
    /\ donnees' = entreprise_sous_evaluee
    /\ resultat' = analyser_entreprise(entreprise_sous_evaluee)
    /\ analyse_faite' = TRUE
    /\ UNCHANGED <<vars_conv, vars_verdict, vars_recup, vars_echelle, vars_main>>

NextAnalyse == AnalyserEntreprise \/ ExempleAnalyse

SpecAnalyse == Init /\ [][NextAnalyse]_vars

-----------------------------------------------------------------------------
(* convertir_valeur on textual fields.                                     *)

MaxLongueur == 3

Alphabet == {"0", "1", "5", "-", ".", " "}

\* every string over Alphabet up to MaxLongueur characters, the markers the
\* provider uses for a missing figure, other text, and a null entry
ValeursTexte ==
    {JStr(s) : s \in UNION {[1..n -> Alphabet] : n \in 0..MaxLongueur}}
    \cup {JStr(T_None), JStr(<<"N","/","A">>), JStr(<<"+","2",".","5">>),
          JStr(<<"1","2","0","0",".","7","5">>), JStr(<<"n","o","n","e">>)}
    \cup {JNull}

\* self.convertir_valeur(valeur_str), one call per behaviour
ConvertirValeur ==
    /\ ~conv_faite
    /\ \E v \in ValeursTexte :
        /\ entree_conv' = v
        /\ conv' = convertir_valeur(v)
    /\ conv_faite' = TRUE
    /\ UNCHANGED <<vars_analyse, vars_verdict, vars_recup, vars_echelle, vars_main>>

NextConv == ConvertirValeur

SpecConv == Init /\ [][NextConv]_vars

-----------------------------------------------------------------------------
(* The verdict ladder applied to any score between 0 and 100.              *)

Finesse == 10

ScoresEssai == {Rat(k, Finesse) : k \in 0..(100 * Finesse)}

\* lines 472-487 of analyser_entreprise on one score_final, one call per behaviour
Verdict ==
    /\ ~verdict_fait
    /\ \E sc \in ScoresEssai :
        /\ score_essai' = sc
        /\ verdict' = Conclusion(sc)
    /\ verdict_fait' = TRUE
    /\ UNCHANGED <<vars_analyse, vars_conv, vars_recup, vars_echelle, vars_main>>

NextVerdict == Verdict

SpecVerdict == Init /\ [][NextVerdict]_vars

-----------------------------------------------------------------------------
(* Each scoring ladder applied to ratios at and around its thresholds.     *)

\* a ratio at distance Ecart hundredths from a threshold is next to it
Ecart == 1

\* t, and the ratios just below and just above it
Autour(t) == {Sub(t, Pct(Ecart)), t, Add(t, Pct(Ecart))}

\* the thresholds coefficient * reference, with the ratios next to them
AutourProduits(ref, coefs) == UNION {Autour(Mul(ref, Pct(c))) : c \in coefs}

\* evaluer_ratio_pe(pe_ratio, references), one call per behaviour
EvaluerPe ==
    /\ echelle = ""
    /\ \E cle \in DOMAIN references_secteur :
        \E x \in AutourProduits(references_secteur[cle].pe_moyen, {70, 85, 115, 150}) :
            /\ ech_cle' = cle
            /\ ech_ratio' = x
            /\ ech_score' = evaluer_ratio_pe(x, references_secteur[cle])
    /\ echelle' = "pe"
    /\ UNCHANGED <<vars_analyse, vars_conv, vars_verdict, vars_recup, vars_main>>

\* evaluer_ratio_pb(pb_ratio, references)
EvaluerPb ==
    /\ echelle = ""
    /\ \E cle \in DOMAIN references_secteur :
        \E x \in AutourProduits(references_secteur[cle].pb_moyen, {60, 80, 120}) :
            /\ ech_cle' = cle
            /\ ech_ratio' = x
            /\ ech_score' = evaluer_ratio_pb(x, references_secteur[cle])
    /\ echelle' = "pb"
    /\ UNCHANGED <<vars_analyse, vars_conv, vars_verdict, vars_recup, vars_main>>

\* evaluer_ratio_peg(peg_ratio)
EvaluerPeg ==
    /\ echelle = ""
    /\ \E x \in UNION {Autour(Dix(k)) : k \in {5, 10, 15, 20}} :
        /\ ech_ratio' = x
        /\ ech_score' = evaluer_ratio_peg(x)
    /\ ech_cle' = K_defaut
    /\ echelle' = "peg"
    /\ UNCHANGED <<vars_analyse, vars_conv, vars_verdict, vars_recup, vars_main>>

\* evaluer_croissance(croissance_revenus, references)
EvaluerCroissance ==
    /\ echelle = ""
    /\ \E cle \in DOMAIN references_secteur :
        \E x \in AutourProduits(references_secteur[cle].croissance_moyenne, {150, 100})
                     \cup Autour(Zero) :
            /\ ech_cle' = cle
            /\ ech_ratio' = x
            /\ ech_score' = evaluer_croissance(x, references_secteur[cle])
    /\ echelle' = "croissance"
    /\ UNCHANGED <<vars_analyse, vars_conv, vars_verdict, vars_recup, vars_main>>

\* evaluer_endettement(ratio_endettement)
EvaluerEndettement ==
    /\ echelle = ""
    /\ \E x \in UNION {Autour(Dix(k)) : k \in {3, 6, 10}} :
        /\ ech_ratio' = x
        /\ ech_score' = evaluer_endettement(x)
    /\ ech_cle' = K_defaut
    /\ echelle' = "endettement"
    /\ UNCHANGED <<vars_analyse, vars_conv, vars_verdict, vars_recup, vars_main>>

NextEchelles ==
    \/ EvaluerPe
    \/ EvaluerPb
    \/ EvaluerPeg
    \/ EvaluerCroissance
    \/ EvaluerEndettement

SpecEchelles == Init /\ [][NextEchelles]_vars

-----------------------------------------------------------------------------
(* One run of recuperer_donnees_entreprise against the provider.           *)

MaxRapports == 2

\* SYMBOL_SEARCH: a failure, an object without bestMatches, no match, a match
\* with an empty symbol, matches
ReponsesRecherche ==
    {[k |-> "exception", cle |-> FALSE, bestMatches |-> <<>>],
     [k |-> "json", cle |-> FALSE, bestMatches |-> <<>>],
     [k |-> "json", cle |-> TRUE, bestMatches |-> <<>>],
     [k |-> "json", cle |-> TRUE, bestMatches |-> <<"">>],
     [k |-> "json", cle |-> TRUE, bestMatches |-> <<"VCORP", "VCO">>]}

\* the entries an OVERVIEW object with Symbol may hold
DonneesApercu ==
    [Name : {JAbsent},
     MA50 : {JStr(<<"2","5">>), JStr(T_None), JAbsent},
     PreviousClose : {JStr(<<"2","4",".","5">>), JAbsent},
     EPS : {JStr(<<"3",".","5">>), JStr(<<"-","1",".","5">>), JAbsent},
     BookValue : {JStr(<<"1","8">>), JStr(T_None)},
     MarketCapitalization : {JStr(<<"5","0","0","0","0","0","0">>), JAbsent},
     PERatio : {JStr(<<"3","0">>)},
     PEGRatio : {JStr(<<"1",".","5">>), JStr(T_None)},
     Sector : {JStr(<<"I","N","D","U","S","T","R","I","A","L","S">>), JStr(<<"T","e","c","h","n","o","l","o","g","y">>), JStr(<<"S","P","A","C","E">>), JAbsent, JNull}]

\* OVERVIEW: a failure, an object without Symbol (the provider's notice of
\* a rate limit), or an object with Symbol
ReponsesApercu ==
    {[k |-> "exception", cle |-> FALSE, data |-> ApercuVide],
     [k |-> "json", cle |-> FALSE, data |-> ApercuVide]}
    \cup {[k |-> "json", cle |-> TRUE, data |-> d] : d \in DonneesApercu}

\* the lists of at most MaxRapports reports over R
Listes(R) == UNION {[1..n -> R] : n \in 0..MaxRapports}

RapportsRevenus == {[totalRevenue |-> JStr(<<"1","2","0","0","0","0","0">>)], [totalRevenue |-> JStr(<<"1","0","0","0","0","0","0">>)]}

RapportsBilan ==
    {[totalDebt |-> JStr(<<"3","0","0","0","0","0">>), longTermDebt |-> JStr(<<"2","0","0","0","0","0">>),
      totalShareholderEquity |-> JStr(<<"8","0","0","0","0","0">>)],
     [totalDebt |-> JStr(T_None), longTermDebt |-> JStr(<<"2","0","0","0","0","0">>),
      totalShareholderEquity |-> JAbsent]}

\* INCOME_STATEMENT or BALANCE_SHEET over the reports R: a failure, an object
\* without annualReports, one whose annualReports is no list, one with a list
ReponsesRapports(R) ==
    {[k |-> "exception", cle |-> FALSE, liste |-> TRUE, rapports |-> <<>>],
     [k |-> "json", cle |-> FALSE, liste |-> TRUE, rapports |-> <<>>],
     [k |-> "json", cle |-> TRUE, liste |-> FALSE, rapports |-> <<>>]}
    \cup {[k |-> "json", cle |-> TRUE, liste |-> TRUE, rapports |-> l] : l \in Listes(R)}

\* lines 183-186: self.rechercher_symbole, and the return when it found
\* nothing; the provider answers with one of Reponses
RechercherSymboleParmi(Reponses) ==
    /\ pc_r = "debut"
    /\ journal' = Append(journal, "SYMBOL_SEARCH")
    /\ \E rep \in Reponses :
        /\ symbole' = rechercher_symbole(rep)
        /\ pc_r' = IF symbole'.nul \/ symbole'.s = "" THEN "fini" ELSE "apercu"
    /\ retour' = RetourNone
    /\ UNCHANGED <<apercu, revenus_data, bilan_data>>
    /\ UNCHANGED <<vars_analyse, vars_conv, vars_verdict, vars_echelle, vars_main>>

RechercherSymbole == RechercherSymboleParmi(ReponsesRecherche)

\* lines 190-193: self.obtenir_apercu_entreprise, and the return when it failed
ObtenirApercuParmi(Reponses) ==
    /\ pc_r = "apercu"
    /\ journal' = Append(journal, "OVERVIEW")
    /\ \E rep \in Reponses :
        /\ apercu' = obtenir_apercu_entreprise(rep)
        /\ pc_r' = IF apercu'.nul THEN "fini" ELSE "pause1"
    /\ retour' = RetourNone
    /\ UNCHANGED <<symbole, revenus_data, bilan_data>>
    /\ UNCHANGED <<vars_analyse, vars_conv, vars_verdict, vars_echelle, vars_main>>

ObtenirApercu == ObtenirApercuParmi(ReponsesApercu)

\* line 196: time.sleep(1)
Pause1 ==
    /\ pc_r = "pause1"
    /\ journal' = Append(journal, "sleep")
    /\ pc_r' = "revenus"
    /\ UNCHANGED <<symbole, apercu, revenus_data, bilan_data, retour>>
    /\ UNCHANGED <<vars_analyse, vars_conv, vars_verdict, vars_echelle, vars_main>>

\* line 199 followed by a return when the income statement failed
ObtenirRevenusParmi_abandon(Reponses) ==
    /\ pc_r = "revenus"
    /\ journal' = Append(journal, "INCOME_STATEMENT")
    /\ \E rep \in Reponses :
        /\ revenus_data' = obtenir_revenus_annuels(rep)
        /\ pc_r' = IF revenus_data'.nul THEN "fini" ELSE "pause2"
    /\ UNCHANGED <<symbole, apercu, bilan_data, retour>>
    /\ UNCHANGED <<vars_analyse, vars_conv, vars_verdict, vars_echelle, vars_main>>

\* line 199: self.obtenir_revenus_annuels
ObtenirRevenusParmi(Reponses) ==
    /\ pc_r = "revenus"
    /\ journal' = Append(journal, "INCOME_STATEMENT")
    /\ \E rep \in Reponses :
        revenus_data' = obtenir_revenus_annuels(rep)
    /\ pc_r' = "pause2"
    /\ UNCHANGED <<symbole, apercu, bilan_data, retour>>
    /\ UNCHANGED <<vars_analyse, vars_conv, vars_verdict, vars_echelle, vars_main>>

ObtenirRevenus == ObtenirRevenusParmi(ReponsesRapports(RapportsRevenus))

\* line 202: time.sleep(1)
Pause2 ==
    /\ pc_r = "pause2"
    /\ journal' = Append(journal, "sleep")
    /\ pc_r' = "bilan"
    /\ UNCHANGED <<symbole, apercu, revenus_data, bilan_data, retour>>
    /\ UNCHANGED <<vars_analyse, vars_conv, vars_verdict, vars_echelle, vars_main>>

\* lines 205-273: self.obtenir_bilan, then the extraction and the return
ObtenirBilanParmi(Reponses) ==
    /\ pc_r = "bilan"
    /\ journal' = Append(journal, "BALANCE_SHEET")
    /\ \E rep \in Reponses :
        /\ bilan_data' = obtenir_bilan(rep)
        /\ retour' = extraire(apercu, revenus_data, bilan_data')
    /\ pc_r' = "fini"
    /\ UNCHANGED <<symbole, apercu, revenus_data>>
    /\ UNCHANGED <<vars_analyse, vars_conv, vars_verdict, vars_echelle, vars_main>>

ObtenirBilan == ObtenirBilanParmi(ReponsesRapports(RapportsBilan))

NextRecup ==
    \/ RechercherSymbole
    \/ ObtenirApercu
    \/ Pause1
    \/ ObtenirRevenus
    \/ Pause2
    \/ ObtenirBilan

SpecRecup == Init /\ [][NextRecup]_vars

-----------------------------------------------------------------------------
(* main: the menu loop, with the handlers of its six selections.           *)

\* configurer_api_key keeping an empty entry as the key
configurer_api_key_sans_demo(texte) ==
    [nul |-> FALSE, s |-> Strip(texte)]

\* configurer_api_key on the text typed at its prompt
configurer_api_key(texte) ==
    LET cle == Strip(texte)
    IN  IF cle = <<>> THEN [nul |-> FALSE, s |-> <<"d","e","m","o">>]
        ELSE [nul |-> FALSE, s |-> cle]

\* saisir_donnees_entreprise on the texts typed at its prompts: float() of a
\* text that is no number raises ValueError (leve), else the record is built
saisir_donnees_entreprise(t) ==
    LET nombres == <<FloatDe(t.prix_action), FloatDe(t.benefice_par_action),
                     FloatDe(t.valeur_comptable_par_action),
                     FloatDe(t.revenus_actuels),
                     FloatDe(t.revenus_annee_precedente),
                     FloatDe(t.dette_totale), FloatDe(t.capitaux_propres),
                     FloatDe(t.croissance_benefices_prevue),
                     FloatDe(t.capitalisation_boursiere)>>
    IN  IF \E i \in DOMAIN nombres : ~nombres[i].ok
        THEN [leve |-> TRUE, d |-> AucuneDonnee]
        ELSE [leve |-> FALSE,
              d |-> [nom |-> JStr(t.nom),
                     prix_action |-> nombres[1].val,
                     benefice_par_action |-> nombres[2].val,
                     valeur_comptable_par_action |-> nombres[3].val,
                     revenus_actuels |-> nombres[4].val,
                     revenus_annee_precedente |-> nombres[5].val,
                     dette_totale |-> nombres[6].val,
                     capitaux_propres |-> nombres[7].val,
                     croissance_benefices_prevue |-> nombres[8].val,
                     secteur |-> Lower(t.secteur),
                     capitalisation_boursiere |-> nombres[9].val]]

\* what may be typed at the menu prompt
ChoixSet == {"1", "2", "3", "4", "5", "6", "7", ""}

\* what may be typed at the prompt for the key
ClesTexte == {<<>>, <<" ">>, <<"d","e","m","o">>, <<" ","K","1"," ">>}

\* what may be typed at the prompt for the company name
NomsTexte == {<<>>, <<" "," ">>, <<"A","A","P","L">>}

\* what may be typed at the prompts of saisir_donnees_entreprise
SaisiesTexte ==
    [nom : {<<"M">>},
     prix_action : {<<"2","5">>, <<"-","5">>, <<"a","b","c">>},
     benefice_par_action : {<<"3",".","5">>, <<"-","1">>},
     valeur_comptable_par_action : {<<"1","8">>, <<>>},
     revenus_actuels : {<<"1","2","0","0">>},
     revenus_annee_precedente : {<<"1","0","0","0">>},
     dette_totale : {<<"3","0","0">>},
     capitaux_propres : {<<"8","0","0">>, <<"-","1","0","0">>},
     croissance_benefices_prevue : {<<"1","5">>},
     capitalisation_boursiere : {<<"5","0","0">>, <<"x">>},
     secteur : {<<"I","n","d","u","s","t","r","i","e">>, <<"l","u","x","e">>}]

\* OVERVIEW objects met from the menu: a complete one, one with a loss per
\* share, one with none of the entries read, one whose Name is null, one
\* whose Sector is null
ApercuComplet ==
    [Name |-> JStr(<<"V">>), MA50 |-> JStr(<<"2","5">>),
     PreviousClose |-> JStr(<<"2","4",".","5">>), EPS |-> JStr(<<"3",".","5">>),
     BookValue |-> JStr(<<"1","8">>),
     MarketCapitalization |-> JStr(<<"5","0","0","0","0","0","0">>),
     PERatio |-> JStr(<<"3","0">>), PEGRatio |-> JStr(<<"1",".","5">>),
     Sector |-> JStr(<<"I","N","D","U","S","T","R","I","A","L","S">>)]

DonneesApercuMenu ==
    {ApercuComplet,
     [ApercuComplet EXCEPT !.EPS = JStr(<<"-","1",".","5">>)],
     ApercuVide,
     [ApercuComplet EXCEPT !.Name = JNull],
     [ApercuComplet EXCEPT !.Sector = JNull]}

ReponsesApercuMenu ==
    {[k |-> "exception", cle |-> FALSE, data |-> ApercuVide],
     [k |-> "json", cle |-> FALSE, data |-> ApercuVide]}
    \cup {[k |-> "json", cle |-> TRUE, data |-> d] : d \in DonneesApercuMenu}

\* INCOME_STATEMENT met from the menu: a failure, an object whose
\* annualReports is no list, an object with two reports
ReponsesRevenusMenu ==
    {[k |-> "exception", cle |-> FALSE, liste |-> TRUE, rapports |-> <<>>],
     [k |-> "json", cle |-> TRUE, liste |-> FALSE, rapports |-> <<>>],
     [k |-> "json", cle |-> TRUE, liste |-> TRUE,
      rapports |-> <<[totalRevenue |-> JStr(<<"1","2","0","0","0","0","0">>)],
                     [totalRevenue |-> JStr(<<"1","0","0","0","0","0","0">>)]>>]}

\* BALANCE_SHEET met from the menu: a failure, an object without
\* annualReports, an object with one report
ReponsesBilanMenu ==
    {[k |-> "exception", cle |-> FALSE, liste |-> TRUE, rapports |-> <<>>],
     [k |-> "json", cle |-> FALSE, liste |-> TRUE, rapports |-> <<>>],
     [k |-> "json", cle |-> TRUE, liste |-> TRUE,
      rapports |-> <<[totalDebt |-> JStr(T_None),
                      longTermDebt |-> JStr(<<"2","0","0","0","0","0">>),
                      totalShareholderEquity |-> JAbsent]>>]}

\* line 687: choix = input(...), and the branch it selects; the locals of
\* the previous selection are gone
Choisir ==
    /\ pc_m = "menu"
    /\ \E c \in ChoixSet :
        /\ choix' = c
        /\ pc_m' = CASE c = "1" -> (IF api_key.nul THEN "cle" ELSE "nom")
                     [] c = "2" -> "saisie"
                     [] c = "3" -> "exemple"
                     [] c = "4" -> "cle"
                     [] c = "5" -> "aide"
                     [] c = "6" -> "fin"
                     [] OTHER   -> "invalide"
        /\ sortie' = IF c = "6" THEN "au_revoir" ELSE ""
    /\ donnees' = AucuneDonnee
    /\ resultat' = AucunResultat
    /\ analyse_faite' = FALSE
    /\ pc_r' = "debut"
    /\ journal' = <<>>
    /\ symbole' = SymboleNone
    /\ apercu' = ApercuNone
    /\ revenus_data' = RapportsNone
    /\ bilan_data' = RapportsNone
    /\ retour' = RetourNone
    /\ nom_entreprise' = <<>>
    /\ saisie' = AucuneSaisie
    /\ UNCHANGED <<api_key, cle_tapee, vars_conv, vars_verdict, vars_echelle>>

\* lines 693 and 723-724: api_key = configurer_api_key()
ConfigurerCle ==
    /\ pc_m = "cle"
    /\ \E texte \in ClesTexte :
        /\ cle_tapee' = texte
        /\ api_key' = configurer_api_key(texte)
    /\ pc_m' = IF choix = "1" THEN "nom" ELSE "menu"
    /\ sortie' = IF choix = "1" THEN sortie ELSE "cle_configuree"
    /\ UNCHANGED <<choix, nom_entreprise, saisie>>
    /\ UNCHANGED <<vars_analyse, vars_conv, vars_verdict, vars_recup, vars_echelle>>

\* lines 695-696 and 705-706: the name is typed; an empty one ends the selection
SaisirNom ==
    /\ pc_m = "nom"
    /\ \E texte \in NomsTexte :
        /\ nom_entreprise' = Strip(texte)
        /\ pc_m' = IF nom_entreprise' = <<>> THEN "menu" ELSE "auto"
        /\ sortie' = IF nom_entreprise' = <<>> THEN "nom_vide" ELSE sortie
    /\ UNCHANGED <<choix, api_key, cle_tapee, saisie>>
    /\ UNCHANGED <<vars_analyse, vars_conv, vars_verdict, vars_recup, vars_echelle>>

\* line 699 and line 539: recuperateur.recuperer_donnees_entreprise(nom_entreprise)
AutoRechercherSymbole == pc_m = "auto" /\ RechercherSymboleParmi(ReponsesRecherche)

AutoObtenirApercu == pc_m = "auto" /\ ObtenirApercuParmi(ReponsesApercuMenu)

AutoPause1 == pc_m = "auto" /\ Pause1

AutoObtenirRevenus ==
    pc_m = "auto" /\ ObtenirRevenusParmi(ReponsesRevenusMenu)

AutoPause2 == pc_m = "auto" /\ Pause2

AutoObtenirBilan ==
    pc_m = "auto" /\ ObtenirBilanParmi(ReponsesBilanMenu)

\* lines 541-552 and 700-704: the analysis of the record fetched, the message
\* when nothing was fetched, and the except of main when the analysis raises
AnalyseAutomatique ==
    /\ pc_m = "auto"
    /\ pc_r = "fini"
    /\ IF retour.nul
       THEN /\ sortie' = "echec_recuperation"
            /\ UNCHANGED vars_analyse
       ELSE IF analyser_leve(retour.d)
       THEN /\ sortie' = "erreur_auto"
            /\ donnees' = retour.d
            /\ UNCHANGED <<resultat, analyse_faite>>
       ELSE /\ sortie' = "rapport"
            /\ donnees' = retour.d
            /\ resultat' = analyser_entreprise(retour.d)
            /\ analyse_faite' = TRUE
    /\ pc_m' = "menu"
    /\ UNCHANGED <<choix, api_key, cle_tapee, nom_entreprise, saisie>>
    /\ UNCHANGED <<vars_conv, vars_verdict, vars_recup, vars_echelle>>

\* saisir_donnees_entreprise raising ValueError with no except around it: the
\* process ends on the traceback
AnalyseManuelle_sans_except ==
    /\ pc_m = "saisie"
    /\ \E t \in SaisiesTexte :
        LET r == saisir_donnees_entreprise(t)
        IN  /\ saisie' = t
            /\ IF r.leve
               THEN /\ sortie' = "traceback"
                    /\ pc_m' = "plante"
                    /\ UNCHANGED vars_analyse
               ELSE /\ sortie' = "rapport"
                    /\ pc_m' = "menu"
                    /\ donnees' = r.d
                    /\ resultat' = analyser_entreprise(r.d)
                    /\ analyse_faite' = TRUE
    /\ UNCHANGED <<choix, api_key, cle_tapee, nom_entreprise>>
    /\ UNCHANGED <<vars_conv, vars_verdict, vars_recup, vars_echelle>>

\* lines 710-717: the manual entry and its analysis, or the message for a
\* text that is no number
AnalyseManuelle ==
    /\ pc_m = "saisie"
    /\ \E t \in SaisiesTexte :
        LET r == saisir_donnees_entreprise(t)
        IN  /\ saisie' = t
            /\ IF r.leve
               THEN /\ sortie' = "erreur_valeur"
                    /\ UNCHANGED vars_analyse
               ELSE /\ sortie' = "rapport"
                    /\ donnees' = r.d
                    /\ resultat' = analyser_entreprise(r.d)
                    /\ analyse_faite' = TRUE
    /\ pc_m' = "menu"
    /\ UNCHANGED <<choix, api_key, cle_tapee, nom_entreprise>>
    /\ UNCHANGED <<vars_conv, vars_verdict, vars_recup, vars_echelle>>

\* line 720: exemple_analyse()
VoirExemples ==
    /\ pc_m = "exemple"
    /\ donnees' = entreprise_sous_evaluee
    /\ resultat' = analyser_entreprise(entreprise_sous_evaluee)
    /\ analyse_faite' = TRUE
    /\ sortie' = "rapport"
    /\ pc_m' = "menu"
    /\ UNCHANGED <<choix, api_key, cle_tapee, nom_entreprise, saisie>>
    /\ UNCHANGED <<vars_conv, vars_verdict, vars_recup, vars_echelle>>

\* lines 726-746: the help text
Aide ==
    /\ pc_m = "aide"
    /\ sortie' = "aide"
    /\ pc_m' = "menu"
    /\ UNCHANGED <<choix, api_key, cle_tapee, nom_entreprise, saisie>>
    /\ UNCHANGED <<vars_analyse, vars_conv, vars_verdict, vars_recup, vars_echelle>>

\* lines 757-758: any other text
ChoixInvalide ==
    /\ pc_m = "invalide"
    /\ sortie' = "choix_invalide"
    /\ pc_m' = "menu"
    /\ UNCHANGED <<choix, api_key, cle_tapee, nom_entreprise, saisie>>
    /\ UNCHANGED <<vars_analyse, vars_conv, vars_verdict, vars_recup, vars_echelle>>

\* the steps main takes by itself once a selection is typed
Traiter ==
    \/ ConfigurerCle
    \/ SaisirNom
    \/ AutoRechercherSymbole
    \/ AutoObtenirApercu
    \/ AutoPause1
    \/ AutoObtenirRevenus
    \/ AutoPause2
    \/ AutoObtenirBilan
    \/ AnalyseAutomatique
    \/ AnalyseManuelle
    \/ VoirExemples
    \/ Aide
    \/ ChoixInvalide

NextMain == Choisir \/ Traiter

SpecMain == Init /\ [][NextMain]_vars

\* main is one thread: it goes on with the selection it is handling; every
\* remote call has a timeout and every prompt is answered
SpecMainEquitable ==
    /\ SpecMain
    /\ WF_vars(ConfigurerCle)
    /\ WF_vars(SaisirNom)
    /\ WF_vars(AutoRechercherSymbole)
    /\ WF_vars(AutoObtenirApercu)
    /\ WF_vars(AutoPause1)
    /\ WF_vars(AutoObtenirRevenus)
    /\ WF_vars(AutoPause2)
    /\ WF_vars(AutoObtenirBilan)
    /\ WF_vars(AnalyseAutomatique)
    /\ WF_vars(AnalyseManuelle)
    /\ WF_vars(VoirExemples)
    /\ WF_vars(Aide)
    /\ WF_vars(ChoixInvalide)

-----------------------------------------------------------------------------
(* Properties of the analyser.                                             *)

\* C1: whenever the analysed record has earnings per share <= 0, whatever its
\* other fields, the P/E ratio is the undefined (infinite) one and the P/E
\* score is exactly 0.
C1_PeIndefini ==
    (analyse_faite /\ Le(donnees.benefice_par_action, Zero))
        => (resultat.ratios.pe = Inf /\ resultat.scores.pe = 0)

C1_Temoin ==
    /\ analyse_faite
    /\ Lt(donnees.benefice_par_action, Zero)
    /\ Gt(donnees.prix_action, Zero)
    /\ resultat.ratios.pe = Inf
    /\ resultat.scores.pe = 0

\* C2: whenever the analysed record has earnings per share = 0, whatever its
\* projected growth, price and sector, the PEG ratio is undefined, the P/E
\* score is 0 and the PEG score is 20.
C2_BpaNul ==
    (analyse_faite /\ donnees.benefice_par_action = Zero)
        => /\ resultat.ratios.pe = Inf
           /\ resultat.ratios.peg = Inf
           /\ resultat.scores.pe = 0
           /\ resultat.scores.peg = 20

C2_Temoin ==
    /\ analyse_faite
    /\ donnees.benefice_par_action = Zero
    /\ Gt(donnees.croissance_benefices_prevue, Zero)
    /\ Gt(donnees.prix_action, Zero)
    /\ resultat.scores.peg = 20

\* C3: whenever the analysed record has shareholders' equity <= 0, whatever
\* its debt, the debt/equity ratio is the undefined one and the leverage
\* score is exactly 0.
C3_EndettementIndefini ==
    (analyse_faite /\ Le(donnees.capitaux_propres, Zero))
        => (resultat.ratios.ratio_endettement = Inf /\ resultat.scores.endettement = 0)

C3_Temoin ==
    /\ analyse_faite
    /\ Lt(donnees.capitaux_propres, Zero)
    /\ Gt(donnees.dette_totale, Zero)
    /\ resultat.scores.endettement = 0

\* C4: after every analysis each of the five scores is an integer between 0
\* and 100, and the final score is the sum weighted 0.25, 0.20, 0.25, 0.20,
\* 0.10 and lies between 0 and 100.
C4_ScoresBornes ==
    analyse_faite =>
        LET sc == resultat.scores
        IN  /\ {sc.pe, sc.pb, sc.peg, sc.croissance, sc.endettement} \subseteq 0..100
            /\ sc.final = Rat(25 * sc.pe + 20 * sc.pb + 25 * sc.peg
                              + 20 * sc.croissance + 10 * sc.endettement, 100)
            /\ Ge(sc.final, Zero)
            /\ Le(sc.final, Ent(100))

\* the highest score of every ladder at once: 87.25
C4_Temoin ==
    /\ analyse_faite
    /\ resultat.scores.pe = 90
    /\ resultat.scores.pb = 85
    /\ resultat.scores.peg = 95
    /\ resultat.scores.croissance = 80
    /\ resultat.scores.endettement = 80
    /\ resultat.scores.final = Rat(349, 4)

Entre(x, bas, haut) == Ge(x, Ent(bas)) /\ Lt(x, Ent(haut))

\* C5: the verdict ladder gives every score between 0 and 100 exactly one of
\* the five tiers, with inclusive lower bounds 75, 60, 40 and 25.
C5_Partition ==
    verdict_fait =>
        /\ verdict \in {"FORTEMENT SOUS-EVALUEE", "SOUS-EVALUEE", "VALORISATION EQUITABLE",
                        "POSSIBLEMENT SUREVALUEE", "SUREVALUEE"}
        /\ (verdict = "FORTEMENT SOUS-EVALUEE") <=> Ge(score_essai, Ent(75))
        /\ (verdict = "SOUS-EVALUEE") <=> Entre(score_essai, 60, 75)
        /\ (verdict = "VALORISATION EQUITABLE") <=> Entre(score_essai, 40, 60)
        /\ (verdict = "POSSIBLEMENT SUREVALUEE") <=> Entre(score_essai, 25, 40)
        /\ (verdict = "SUREVALUEE") <=> Lt(score_essai, Ent(25))

C5_Temoin ==
    /\ verdict_fait
    /\ score_essai = Ent(75)
    /\ verdict = "FORTEMENT SOUS-EVALUEE"

\* C6: the analysis of the built-in example record gives revenue growth 20,
\* debt/equity 0.375, a P/E of 25/3.5 below 0.70 * 16 and so a P/E score of
\* 90, and a verdict in the undervalued or the strongly undervalued tier.
C6_Exemple ==
    (analyse_faite /\ donnees = entreprise_sous_evaluee)
        => /\ resultat.ratios.croissance_revenus = Ent(20)
           /\ resultat.ratios.ratio_endettement = Rat(375, 1000)
           /\ resultat.ratios.pe = Rat(50, 7)
           /\ Lt(resultat.ratios.pe, Rat(112, 10))
           /\ resultat.references.pe_moyen = Ent(16)
           /\ resultat.scores.pe = 90
           /\ resultat.conclusion \in {"SOUS-EVALUEE", "FORTEMENT SOUS-EVALUEE"}

C6_Temoin ==
    /\ analyse_faite
    /\ donnees = entreprise_sous_evaluee
    /\ resultat.scores.final = Rat(8525, 100)
    /\ resultat.conclusion = "FORTEMENT SOUS-EVALUEE"

\* tag and key are the same word up to the case of the letters of tag
MemeCle(tag, cle) ==
    /\ Len(tag) = Len(cle)
    /\ \A i \in DOMAIN tag :
        \/ tag[i] = cle[i]
        \/ \E j \in DOMAIN Majuscules : Majuscules[j] = tag[i] /\ Minuscules[j] = cle[i]

\* C7: the analysis of a record whose sector tag is no key of the benchmark
\* table, compared without regard to case, completes and uses the default
\* benchmark (P/E 18, P/B 2.8, growth 10); with a tag that is a key it uses
\* that sector's own benchmark.
C7_References ==
    analyse_faite =>
        /\ \A cle \in DOMAIN references_secteur :
              MemeCle(donnees.secteur, cle)
                  => resultat.references = references_secteur[cle]
        /\ (~ \E cle \in DOMAIN references_secteur : MemeCle(donnees.secteur, cle))
              => /\ resultat.references =
                        [pe_moyen |-> Ent(18), pb_moyen |-> Rat(28, 10),
                         croissance_moyenne |-> Ent(10)]
                 /\ resultat.conclusion # ""

C7_Temoin ==
    /\ analyse_faite
    /\ donnees.secteur = <<"l","u","x","e">>
    /\ resultat.references.pe_moyen = Ent(18)
    /\ resultat.conclusion # ""

-----------------------------------------------------------------------------
(* Properties of convertir_valeur.                                         *)

\* C8: convertir_valeur never raises; it returns 0.0 for a null entry and for
\* every text float() does not parse (the empty string, "None" and "-" among
\* them), and the number float() parses for every other text.
C8_Conversion ==
    conv_faite =>
        /\ ~conv.leve
        /\ (entree_conv.k = "null" \/ ~FloatDe(entree_conv.s).ok) => conv.val = Zero
        /\ (entree_conv.k = "str" /\ FloatDe(entree_conv.s).ok)
              => conv.val = FloatDe(entree_conv.s).val
        /\ entree_conv.s \in {<<>>, T_None, T_Tiret} => conv.val = Zero

C8_Temoin ==
    /\ conv_faite
    /\ entree_conv = JStr(<<"N","/","A">>)
    /\ conv = [leve |-> FALSE, val |-> Zero]

-----------------------------------------------------------------------------
(* Properties of recuperer_donnees_entreprise.                             *)

\* symbol resolution or the overview call failed
EchecRecherche == symbole.nul \/ symbole.s = "" \/ apercu.nul

\* a fetched document makes the extraction raise: a Sector that is no text,
\* or an annualReports that is no list
DocumentMalForme ==
    /\ ~apercu.nul
    /\ \/ apercu.data.Sector.k = "null"
       \/ (~revenus_data.nul /\ ~revenus_data.liste)
       \/ (~bilan_data.nul /\ ~bilan_data.liste)

RevenusNuls == retour.d.revenus_actuels = Zero /\ retour.d.revenus_annee_precedente = Zero

BilanNul == retour.d.dette_totale = Zero /\ retour.d.capitaux_propres = Zero

\* C9 as stated: a finished run returns nothing if symbol resolution or the
\* overview call failed; if both succeeded it returns a record, whatever the
\* outcome of the income-statement and balance-sheet calls, with zero revenue
\* fields when the income statement failed and zero debt and equity when the
\* balance sheet failed.
C9_Original ==
    pc_r = "fini" =>
        /\ EchecRecherche => retour.nul
        /\ ~EchecRecherche =>
              /\ ~retour.nul
              /\ revenus_data.nul => RevenusNuls
              /\ bilan_data.nul => BilanNul

\* C9 amended: a finished run returns nothing if symbol resolution failed, the
\* overview call failed, or the extraction of the fetched fields raised; in
\* every other case it returns a record, whatever the outcome of the
\* income-statement and balance-sheet calls, with zero revenue fields when
\* the income statement failed and zero debt and equity when the balance
\* sheet failed.
C9_Retour ==
    pc_r = "fini" =>
        /\ (EchecRecherche \/ DocumentMalForme) => retour.nul
        /\ ~(EchecRecherche \/ DocumentMalForme) =>
              /\ ~retour.nul
              /\ revenus_data.nul => RevenusNuls
              /\ bilan_data.nul => BilanNul

\* both secondary calls failed and a record is returned all the same
C9_Temoin ==
    /\ pc_r = "fini"
    /\ ~EchecRecherche
    /\ revenus_data.nul
    /\ bilan_data.nul
    /\ ~retour.nul
    /\ retour.d.prix_action = Ent(25)
    /\ RevenusNuls
    /\ BilanNul

EstAppel(e) == e \in {"SYMBOL_SEARCH", "OVERVIEW", "INCOME_STATEMENT", "BALANCE_SHEET"}

\* C10: within one run no remote call is issued right after the previous
\* remote call; a sleep always separates two successive calls.
C10_DelaiEntreAppels ==
    \A i \in 1..(Len(journal) - 1) :
        ~(EstAppel(journal[i]) /\ EstAppel(journal[i + 1]))

\* the ladder has been applied to exactly coefficient * reference
Egal(ech, ref, coef) == echelle = ech /\ ech_ratio = Mul(ref, Pct(coef))

\* C14: in each of the five ladders a ratio exactly equal to a threshold gets
\* the score of the lower-scoring of the two bands the threshold separates.
C14_Egalites ==
    LET r == references_secteur[ech_cle]
        un == Ent(1)
    IN  /\ Egal("pe", r.pe_moyen, 70) => ech_score = 70
        /\ Egal("pe", r.pe_moyen, 85) => ech_score = 50
        /\ Egal("pe", r.pe_moyen, 115) => ech_score = 30
        /\ Egal("pe", r.pe_moyen, 150) => ech_score = 10
        /\ Egal("pb", r.pb_moyen, 60) => ech_score = 65
        /\ Egal("pb", r.pb_moyen, 80) => ech_score = 50
        /\ Egal("pb", r.pb_moyen, 120) => ech_score = 25
        /\ Egal("peg", un, 50) => ech_score = 80
        /\ Egal("peg", un, 100) => ech_score = 50
        /\ Egal("peg", un, 150) => ech_score = 30
        /\ Egal("peg", un, 200) => ech_score = 10
        /\ Egal("croissance", r.croissance_moyenne, 150) => ech_score = 65
        /\ Egal("croissance", r.croissance_moyenne, 100) => ech_score = 45
        /\ Egal("croissance", un, 0) => ech_score = 20
        /\ Egal("endettement", un, 30) => ech_score = 60
        /\ Egal("endettement", un, 60) => ech_score = 40
        /\ Egal("endettement", un, 100) => ech_score = 20

-----------------------------------------------------------------------------
(* Properties of the records main hands to the analyser.                   *)

\* the selection just handled gave the analyser a record built from
\* provider data
RecordAuto == pc_m = "menu" /\ choix = "1" /\ sortie \in {"rapport", "erreur_auto"}

\* the selection just handled gave the analyser a record built from manual input
RecordManuel == pc_m = "menu" /\ choix = "2" /\ sortie = "rapport"

\* the numeric fields other than the projected growth
ChampsHorsCroissance(d) ==
    {d.prix_action, d.benefice_par_action, d.valeur_comptable_par_action,
     d.revenus_actuels, d.revenus_annee_precedente, d.dette_totale,
     d.capitaux_propres, d.capitalisation_boursiere}

Manque(entry) == entry.k = "absent"

\* the entry is the text of a negative number
Negatif(entry) ==
    entry.k = "str" /\ FloatDe(entry.s).ok /\ Lt(FloatDe(entry.s).val, Zero)

SansRevenus == revenus_data.nul \/ Len(revenus_data.rapports) < 2

SansBilan == bilan_data.nul \/ Len(bilan_data.rapports) < 1

\* C11 as stated: in every record that reaches the analyser, from provider data
\* or from manual input, a numeric field whose source datum is missing is 0,
\* and price, EPS, book value, revenues, debt, equity and market
\* capitalisation are all >= 0.
C11_Original ==
    /\ (RecordAuto \/ RecordManuel) =>
          \A x \in ChampsHorsCroissance(donnees) : Ge(x, Zero)
    /\ RecordAuto =>
          LET a == apercu.data
          IN  /\ (Manque(a.MA50) /\ Manque(a.PreviousClose)) => donnees.prix_action = Zero
              /\ Manque(a.EPS) => donnees.benefice_par_action = Zero
              /\ Manque(a.BookValue) => donnees.valeur_comptable_par_action = Zero
              /\ Manque(a.MarketCapitalization) => donnees.capitalisation_boursiere = Zero
              /\ (Manque(a.PERatio) \/ Manque(a.PEGRatio))
                    => donnees.croissance_benefices_prevue = Zero
              /\ SansRevenus => (donnees.revenus_actuels = Zero
                                 /\ donnees.revenus_annee_precedente = Zero)
              /\ SansBilan => (donnees.dette_totale = Zero
                               /\ donnees.capitaux_propres = Zero)

\* C11 amended: in a record built from provider data a numeric field whose
\* source datum is missing is 0, except the price, which is 100 when both
\* price entries are missing, and the projected growth, which is 10 when the
\* P/E or the PEG entry is missing; the projected growth is positive, and
\* any other numeric field is negative only if the provider's number for it
\* is negative.  A record built from manual input has no defaults: every
\* numeric field is the number typed, negative if the number typed is.
C11_Champs ==
    /\ RecordAuto =>
          LET a == apercu.data
              d == donnees
          IN  /\ (Manque(a.MA50) /\ Manque(a.PreviousClose)) => d.prix_action = Ent(100)
              /\ Manque(a.EPS) => d.benefice_par_action = Zero
              /\ Manque(a.BookValue) => d.valeur_comptable_par_action = Zero
              /\ Manque(a.MarketCapitalization) => d.capitalisation_boursiere = Zero
              /\ (Manque(a.PERatio) \/ Manque(a.PEGRatio))
                    => d.croissance_benefices_prevue = Ent(10)
              /\ SansRevenus => (d.revenus_actuels = Zero
                                 /\ d.revenus_annee_precedente = Zero)
              /\ SansBilan => (d.dette_totale = Zero /\ d.capitaux_propres = Zero)
              /\ Gt(d.croissance_benefices_prevue, Zero)
              /\ Lt(d.prix_action, Zero) => (Negatif(a.MA50) \/ Negatif(a.PreviousClose))
              /\ Lt(d.benefice_par_action, Zero) => Negatif(a.EPS)
              /\ Lt(d.valeur_comptable_par_action, Zero) => Negatif(a.BookValue)
              /\ Lt(d.capitalisation_boursiere, Zero) => Negatif(a.MarketCapitalization)
              /\ Lt(d.revenus_actuels, Zero)
                    => Negatif(revenus_data.rapports[1].totalRevenue)
              /\ Lt(d.revenus_annee_precedente, Zero)
                    => Negatif(revenus_data.rapports[2].totalRevenue)
              /\ Lt(d.dette_totale, Zero)
                    => (Negatif(bilan_data.rapports[1].totalDebt)
                        \/ Negatif(bilan_data.rapports[1].longTermDebt))
              /\ Lt(d.capitaux_propres, Zero)
                    => Negatif(bilan_data.rapports[1].totalShareholderEquity)
    /\ RecordManuel =>
          LET d == donnees
              Tape(texte, x) == FloatDe(texte).ok /\ x = FloatDe(texte).val
          IN  /\ Tape(saisie.prix_action, d.prix_action)
              /\ Tape(saisie.benefice_par_action, d.benefice_par_action)
              /\ Tape(saisie.valeur_comptable_par_action, d.valeur_comptable_par_action)
              /\ Tape(saisie.revenus_actuels, d.revenus_actuels)
              /\ Tape(saisie.revenus_annee_precedente, d.revenus_annee_precedente)
              /\ Tape(saisie.dette_totale, d.dette_totale)
              /\ Tape(saisie.capitaux_propres, d.capitaux_propres)
              /\ Tape(saisie.croissance_benefices_prevue, d.croissance_benefices_prevue)
              /\ Tape(saisie.capitalisation_boursiere, d.capitalisation_boursiere)

\* the provider reports a loss per share and the record analysed carries it
C11_Temoin ==
    /\ RecordAuto
    /\ analyse_faite
    /\ apercu.data.EPS = JStr(<<"-","1",".","5">>)
    /\ donnees.benefice_par_action = Rat(-3, 2)
    /\ resultat.scores.pe = 0

-----------------------------------------------------------------------------
(* Properties of the ladders.                                              *)

\* the explanations of the branches that compare the ratio with a threshold
BranchesNumeriques ==
    {"P/E tres faible", "P/E faible", "P/E normal", "P/E eleve", "P/E tres eleve",
     "P/B tres faible", "P/B faible", "P/B normal", "P/B eleve",
     "PEG excellent", "PEG bon", "PEG acceptable", "PEG eleve", "PEG tres eleve",
     "Endettement faible", "Endettement modere", "Endettement eleve",
     "Endettement tres eleve"}

\* C12: the analysis of any record completes, and for each of P/E, P/B, PEG
\* and debt/equity a non-positive denominator gives the undefined ratio, which
\* is scored by a branch of its ladder that is none of the branches comparing
\* the ratio with a threshold.
C12_BrancheIndefinie ==
    analyse_faite =>
        /\ resultat.conclusion # ""
        /\ Le(donnees.benefice_par_action, Zero)
              => /\ resultat.ratios.pe = Inf
                 /\ resultat.explications.pe \notin BranchesNumeriques
        /\ Le(donnees.valeur_comptable_par_action, Zero)
              => /\ resultat.ratios.pb = Inf
                 /\ resultat.explications.pb \notin BranchesNumeriques
        /\ (Le(donnees.benefice_par_action, Zero)
            \/ Le(donnees.croissance_benefices_prevue, Zero))
              => /\ resultat.ratios.peg = Inf
                 /\ resultat.explications.peg \notin BranchesNumeriques
        /\ Le(donnees.capitaux_propres, Zero)
              => /\ resultat.ratios.ratio_endettement = Inf
                 /\ resultat.explications.endettement \notin BranchesNumeriques

-----------------------------------------------------------------------------
(* Properties of main.                                                     *)

\* C13: every selection other than 6 leads back to the menu prompt, whatever
\* happens while it is handled (a failed lookup, an analysis that raises, a
\* manual entry that is no number, after which no analysis has run); the
\* loop is left only from the menu prompt, by selection 6, and selection 6
\* leaves it.
C13_RetourAuMenu ==
    /\ [](pc_m \notin {"menu", "fin"} => <>(pc_m = "menu"))
    /\ [][(pc_m # "fin" /\ pc_m' = "fin") <=> (pc_m = "menu" /\ choix' = "6")]_vars
    /\ [](sortie = "erreur_valeur" => ~analyse_faite)
    /\ [](pc_m \in {"menu", "cle", "nom", "auto", "saisie", "exemple", "aide",
                    "invalide", "fin"})

\* back at the menu prompt after an automatic analysis that raised
C13_Temoin ==
    /\ pc_m = "menu"
    /\ choix = "1"
    /\ sortie = "erreur_auto"
    /\ ~retour.nul
    /\ ~analyse_faite

-----------------------------------------------------------------------------
(* Properties of the analysis of a record without earnings.                *)

\* C15: whenever analyser_entreprise has returned for a record whose
\* benefice_par_action is zero or negative, the P/E score is 0 and the PEG
\* score is 20, the final score is at most 46 (0*0.25 + 85*0.20 + 20*0.25 +
\* 80*0.20 + 80*0.10), and the conclusion is neither the undervalued nor the
\* strongly undervalued tier, whatever the other fields and the sector.
C15_ScorePlafonne ==
    (analyse_faite /\ Le(donnees.benefice_par_action, Zero)) =>
        /\ resultat.scores.pe = 0
        /\ resultat.scores.peg = 20
        /\ Le(resultat.scores.final, Ent(46))
        /\ resultat.conclusion \notin {"SOUS-EVALUEE", "FORTEMENT SOUS-EVALUEE"}

\* a record with negative earnings whose three other scores are the highest
\* ones, so that its final score is exactly 46
C15_Temoin ==
    /\ analyse_faite
    /\ Lt(donnees.benefice_par_action, Zero)
    /\ resultat.scores.pb = 85
    /\ resultat.scores.croissance = 80
    /\ resultat.scores.endettement = 80
    /\ resultat.scores.final = Ent(46)
    /\ resultat.conclusion = "VALORISATION EQUITABLE"

-----------------------------------------------------------------------------
(* Properties of the order of the remote calls of one run.                 *)

\* the remote calls of the run so far, in the order they were issued
Appels == SelectSeq(journal, EstAppel)

OrdreAppels == <<"SYMBOL_SEARCH", "OVERVIEW", "INCOME_STATEMENT", "BALANCE_SHEET">>

Emis(appel) == \E i \in DOMAIN Appels : Appels[i] = appel

\* C16: at every point of a run of recuperer_donnees_entreprise the remote
\* calls issued so far are the first calls of the order symbol search,
\* overview, income statement, balance sheet, each at most once; the overview
\* call is issued only after a symbol search that returned a non-empty symbol;
\* the income-statement and balance-sheet calls are issued only after an
\* overview call that succeeded; and once the income-statement call has been
\* issued the run goes on to the balance-sheet call whether or not the income
\* statement was obtained, so that a finished run has issued both or neither.
C16_OrdreAppels ==
    /\ Len(Appels) <= Len(OrdreAppels)
    /\ \A i \in DOMAIN Appels : Appels[i] = OrdreAppels[i]
    /\ Emis("OVERVIEW") => (~symbole.nul /\ symbole.s # "")
    /\ (Emis("INCOME_STATEMENT") \/ Emis("BALANCE_SHEET")) => ~apercu.nul
    /\ Emis("INCOME_STATEMENT") => pc_r \in {"pause2", "bilan", "fini"}
    /\ pc_r = "fini" =>
          /\ Emis("BALANCE_SHEET") <=> (Emis("OVERVIEW") /\ ~apercu.nul)
          /\ Emis("INCOME_STATEMENT") <=> Emis("BALANCE_SHEET")
          /\ ~Emis("OVERVIEW") <=> (symbole.nul \/ symbole.s = "")

\* a finished run whose income-statement call failed and which issued the
\* four calls in order
C16_Temoin ==
    /\ pc_r = "fini"
    /\ revenus_data.nul
    /\ ~bilan_data.nul
    /\ Appels = OrdreAppels

-----------------------------------------------------------------------------
(* Properties of the API key main stores.                                  *)

Demo == <<"d","e","m","o">>

\* the step is taken while main handles the selection c
Pendant(c) == pc_m # "menu" /\ choix = c

\* C17: in every run of main the stored API key starts unset; it is changed
\* only by configurer_api_key, called for selection 4 or for selection 1
\* while the key is still unset; once set it is the stripped text typed, or
\* "demo" when that text is empty, hence never empty, and it never returns to
\* unset; selection 1 prompts for a key when none is set and only then; the
\* reading of a selection and the handling of selections 2, 3, 5, 6 and of
\* invalid selections leave the key unchanged.
C17_CleApi ==
    /\ api_key.nul
    /\ [](~api_key.nul =>
            /\ api_key.s # <<>>
            /\ api_key.s = IF Strip(cle_tapee) = <<>> THEN Demo ELSE Strip(cle_tapee))
    /\ [][~api_key.nul => ~api_key'.nul]_vars
    /\ [][api_key' # api_key =>
            /\ pc_m = "cle"
            /\ choix = "4" \/ (choix = "1" /\ api_key.nul)]_vars
    /\ [][(pc_m = "menu" /\ choix' = "1") =>
            (pc_m' = "cle" <=> api_key.nul)]_vars
    /\ [](Pendant("1") /\ pc_m = "cle" => api_key.nul)
    /\ [][(pc_m = "menu" \/ \E c \in ChoixSet \ {"1", "4"} : Pendant(c)) =>
            api_key' = api_key]_vars

\* selection 1 with no key set, an empty text typed at the prompt for the
\* key: the key is "demo" when the company name is asked
C17_Temoin ==
    /\ pc_m = "nom"
    /\ choix = "1"
    /\ cle_tapee = <<>>
    /\ ~api_key.nul
    /\ api_key.s = Demo

=============================================================================
